---- MODULE Spec2Model ----
(***************************************************************************)
(* Metal Basket Tokens: the basket ledger of mbt_basket_chaincode.go       *)
(* (MintMBT, RedeemMBT, RebalanceBasket and the aggregate BASKET_HOLDINGS  *)
(* record) and the rebalancing contract of mbt_rebalancing_chaincode.go    *)
(* (policy, requests, operations) as state machines over the world state   *)
(* of each chaincode.  The two chaincodes are deployed under their own     *)
(* names, so each has its own world state.                                 *)
(*                                                                         *)
(* Every chaincode invocation is one transaction: it either returns nil    *)
(* and all its PutState/DelState calls are committed, or it returns an     *)
(* error and none is.  In Spec and SpecR each action is one invocation,    *)
(* submitted after the previous one was committed; SpecBoth interleaves    *)
(* the invocations of the two contracts, and SpecEval applies the two      *)
(* rebalance checks to given aggregate records.  SpecC and SpecRC          *)
(* split an invocation into its simulation on a peer (which collects the   *)
(* versions of the keys it read and the values it wrote) and its commit    *)
(* (which is dropped when a key it read has been written since).  SpecLive *)
(* runs the loop of ExecuteRebalance step by step, under weak fairness.    *)
(* SpecSell is the sell flow of the backend (server.js).                   *)
(*                                                                         *)
(* float64 values are modelled as exact fractions n/d in lowest terms,     *)
(* extended with the IEEE special values: d = 0 encodes NaN (n = 0),       *)
(* +Inf (n = 1) and -Inf (n = -1).  Rounding of finite results is not      *)
(* modelled (the specification's "within tolerance").                      *)
(***************************************************************************)
EXTENDS Integers, FiniteSets, Sequences, TLC

VARIABLES
    now,        \* the peer's clock (time.Now()), in clock ticks
    tokens,     \* world state: token id -> MBTToken record
    holdings,   \* world state: the BASKET_HOLDINGS record, or NoHoldings
    last,       \* the last invocation: the function, its error and, for
                \* CalculateMBTNAV, the value returned
    calls,      \* number of invocations so far
    premint,    \* history: the token and the aggregate totals as they were
                \* before the Mint that was the last invocation, or NoMint
    policy,     \* rebalancing world state: REBALANCE_POLICY, or NoPolicy
    requests,   \* rebalancing world state: request id -> RebalanceRequest
    operations, \* rebalancing world state: operation id -> RebalanceOperation
    rholdings,  \* rebalancing world state: its BASKET_HOLDINGS, or NoHoldings
    version,    \* the version of every key (the commit that wrote it last)
    pending,    \* transactions simulated on a peer and not yet committed
    applied,    \* history: the sum of the deltas of all committed Mints and
                \* Redeems, and the number of commits that executed a request
    exec,       \* the ExecuteRebalance invocation whose loop over the world
                \* state is in progress (SpecLive), or NotExecuting
    backend     \* server.js: the MBTTransaction records of the database and
                \* the sell requests being handled (SpecSell)

basketVars == <<tokens, holdings, premint>>
rebalVars == <<policy, requests, operations, rholdings>>
txVars == <<version, pending, applied, exec, backend>>

vars == <<now, tokens, holdings, last, calls, premint,
          policy, requests, operations, rholdings, version, pending, applied, exec,
          backend>>

-----------------------------------------------------------------------------
(* Bounds of the model *)

MaxCalls == 3          \* invocations of the basket contract explored
MaxRebalCalls == 4     \* invocations of the rebalancing contract explored
MaxLiveCalls == 2      \* InitializePolicy and Create invocations in SpecLive
MaxSells == 2          \* sell requests of the backend explored
MaxPending == 2        \* transactions simulated and not yet committed
MaxTicks == 1          \* single clock ticks explored
MaxJumps == 1          \* interval-long clock jumps explored
TicksPerSecond == 2    \* clock readings per RFC3339 second

\* the users that invoke the chaincode, and those among them that mint tokens
Users == {"alice", "bob"}
Owners == {"alice"}

-----------------------------------------------------------------------------
(* float64 arithmetic *)

\* the operands of +, * and / are bound to their values (a \in {x}), so that
\* each is evaluated once however often the operation refers to it
RECURSIVE GCD(_, _)
GCD(a, b) == IF b = 0 THEN a ELSE GCD(b, a % b)

AbsInt(x) == IF x < 0 THEN -x ELSE x
SgnInt(x) == IF x < 0 THEN -1 ELSE IF x > 0 THEN 1 ELSE 0

\* the fraction n/d (d > 0) in lowest terms
Norm(n, d) ==
    LET g == GCD(AbsInt(n), d)
    IN  [n |-> n \div g, d |-> d \div g]

F(i) == [n |-> i, d |-> 1]
NaN == [n |-> 0, d |-> 0]
Inf(s) == [n |-> s, d |-> 0]

IsNaN(x) == x.d = 0 /\ x.n = 0
IsInf(x) == x.d = 0 /\ x.n # 0
IsFinite(x) == x.d > 0
IsZero(x) == x.d > 0 /\ x.n = 0

FNeg(a) == [n |-> -a.n, d |-> a.d]

FAdd(x, y) ==
    CHOOSE sum \in
        {IF IsNaN(a) \/ IsNaN(b) THEN NaN
         ELSE IF IsInf(a) /\ IsInf(b) THEN (IF a.n = b.n THEN a ELSE NaN)
         ELSE IF IsInf(a) THEN a
         ELSE IF IsInf(b) THEN b
         ELSE Norm(a.n * b.d + b.n * a.d, a.d * b.d) : a \in {x}, b \in {y}} : TRUE

FSub(a, b) == FAdd(a, FNeg(b))

FMul(x, y) ==
    CHOOSE product \in
        {IF IsNaN(a) \/ IsNaN(b) THEN NaN
         ELSE IF IsInf(a) \/ IsInf(b)
              THEN (IF IsZero(a) \/ IsZero(b) THEN NaN
                    ELSE Inf(SgnInt(a.n) * SgnInt(b.n)))
         ELSE Norm(a.n * b.n, a.d * b.d) : a \in {x}, b \in {y}} : TRUE

\* a / b; a zero divisor is +0 (no operation of the ledger produces -0 as a
\* divisor: a stored totalValue of zero only comes from a mint of 0)
FDiv(x, y) ==
    CHOOSE quotient \in
        {IF IsNaN(a) \/ IsNaN(b) THEN NaN
         ELSE IF IsInf(a) THEN (IF IsInf(b) THEN NaN
                                ELSE Inf(a.n * (IF b.n < 0 THEN -1 ELSE 1)))
         ELSE IF IsInf(b) THEN F(0)
         ELSE IF b.n = 0 THEN (IF a.n = 0 THEN NaN ELSE Inf(SgnInt(a.n)))
         ELSE Norm(a.n * b.d * SgnInt(b.n), a.d * AbsInt(b.n)) : a \in {x}, b \in {y}} : TRUE

\* a < b; every comparison with NaN is false
FLt(a, b) ==
    IF IsNaN(a) \/ IsNaN(b) THEN FALSE
    ELSE IF IsInf(a) /\ IsInf(b) THEN a.n < b.n
    ELSE a.n * b.d < b.n * a.d

\* a == b
FEq(a, b) == ~IsNaN(a) /\ ~IsNaN(b) /\ a = b

\* abs of mbt_basket_chaincode.go
abs(x) == IF FLt(x, F(0)) THEN FNeg(x) ELSE x

-----------------------------------------------------------------------------
(* Program constants *)

GOLD_ALLOCATION == Norm(50, 100)
SILVER_ALLOCATION == Norm(30, 100)
PLATINUM_ALLOCATION == Norm(20, 100)
MAX_DEVIATION_PERCENT == Norm(5, 100)
REBALANCE_INTERVAL_DAYS == 30
SecondsPerDay == 86400
SimulatedBalance == 1000000

TicksPerDay == SecondsPerDay * TicksPerSecond
IntervalTicks == REBALANCE_INTERVAL_DAYS * TicksPerDay

-----------------------------------------------------------------------------
(* Time *)

\* time.Now().UnixNano(): the clock reading itself
UnixNano(t) == t

\* time.Now().Format(time.RFC3339): whole seconds, the sub-second part is dropped
FormatRFC3339(t) == t \div TicksPerSecond

\* a timestamp string that is empty or not in RFC 3339 format
Unparsable == -1000000000

\* time.Parse(time.RFC3339, s) returns an error
ParseError(s) == s = Unparsable

\* time.Parse(time.RFC3339, s): the instant at the start of that second
ParseRFC3339(s) == s * TicksPerSecond

-----------------------------------------------------------------------------
(* World state *)

NoHoldings == [none |-> TRUE]
NoPolicy == [none |-> TRUE]

\* versions: the number of commits so far, and for every key that is stored the
\* number of the commit that wrote it last (a key that is not stored has none)
NoVersions == [height |-> 0, holdings |-> 0, tokens |-> << >>, requests |-> << >>]

NothingApplied == [totals |-> [supply |-> F(0), bgt |-> F(0), bst |-> F(0), bpt |-> F(0)],
                   executions |-> << >>]

Put(f, k, v) == [x \in (DOMAIN f) \cup {k} |-> IF x = k THEN v ELSE f[x]]
Del(f, k) == [x \in (DOMAIN f) \ {k} |-> f[x]]

\* json.Marshal of a struct fails on a NaN or infinite float64
MarshalableHoldings(h) ==
    /\ IsFinite(h.totalMbtSupply)
    /\ IsFinite(h.totalBgtValue)
    /\ IsFinite(h.totalBstValue)
    /\ IsFinite(h.totalBptValue)

MarshalableToken(t) ==
    /\ IsFinite(t.totalValue)
    /\ IsFinite(t.bgtAmount)
    /\ IsFinite(t.bstAmount)
    /\ IsFinite(t.bptAmount)

\* GetBasketHoldings: the stored record, or a fresh all-zero record (which is
\* returned but not stored)
GetBasketHoldings ==
    IF holdings = NoHoldings
    THEN [totalMbtSupply |-> F(0), totalBgtValue |-> F(0),
          totalBstValue |-> F(0), totalBptValue |-> F(0),
          rebalanceNeeded |-> FALSE,
          lastRebalance |-> FormatRFC3339(now)]
    ELSE holdings

TotalMetalValue(h) ==
    FAdd(FAdd(h.totalBgtValue, h.totalBstValue), h.totalBptValue)

DeviationExceeded(h) ==
    LET totalValue == TotalMetalValue(h)
        goldDeviation == abs(FSub(FDiv(h.totalBgtValue, totalValue), GOLD_ALLOCATION))
        silverDeviation == abs(FSub(FDiv(h.totalBstValue, totalValue), SILVER_ALLOCATION))
        platinumDeviation == abs(FSub(FDiv(h.totalBptValue, totalValue), PLATINUM_ALLOCATION))
    IN  \/ FLt(MAX_DEVIATION_PERCENT, goldDeviation)
        \/ FLt(MAX_DEVIATION_PERCENT, silverDeviation)
        \/ FLt(MAX_DEVIATION_PERCENT, platinumDeviation)

\* CheckRebalanceNeeded's time-based check: a date that does not parse
\* triggers the rebalance
IntervalElapsed(h) ==
    IF ParseError(h.lastRebalance) THEN TRUE
    ELSE now - ParseRFC3339(h.lastRebalance) >= IntervalTicks

CheckRebalanceNeeded(h) ==
    IF FEq(h.totalMbtSupply, F(0)) THEN FALSE
    ELSE IF FEq(TotalMetalValue(h), F(0)) THEN FALSE
    ELSE IF DeviationExceeded(h) THEN TRUE
    ELSE IntervalElapsed(h)

\* mutant of HoldingsDelta: a redemption leaves the platinum total as it is
HoldingsDeltaKeepsPlatinum(h, mbtAmount, bgtValue, bstValue, bptValue, isMint) ==
    IF isMint
    THEN [h EXCEPT !.totalMbtSupply = FAdd(@, mbtAmount),
                   !.totalBgtValue = FAdd(@, bgtValue),
                   !.totalBstValue = FAdd(@, bstValue),
                   !.totalBptValue = FAdd(@, bptValue)]
    ELSE [h EXCEPT !.totalMbtSupply = FSub(@, mbtAmount),
                   !.totalBgtValue = FSub(@, bgtValue),
                   !.totalBstValue = FSub(@, bstValue)]

\* the record UpdateBasketHoldings computes before it is marshalled
HoldingsDelta(h, mbtAmount, bgtValue, bstValue, bptValue, isMint) ==
    IF isMint
    THEN [h EXCEPT !.totalMbtSupply = FAdd(@, mbtAmount),
                   !.totalBgtValue = FAdd(@, bgtValue),
                   !.totalBstValue = FAdd(@, bstValue),
                   !.totalBptValue = FAdd(@, bptValue)]
    ELSE [h EXCEPT !.totalMbtSupply = FSub(@, mbtAmount),
                   !.totalBgtValue = FSub(@, bgtValue),
                   !.totalBstValue = FSub(@, bstValue),
                   !.totalBptValue = FSub(@, bptValue)]

\* UpdateBasketHoldings: [err, holdings], the record to store when err = "OK"
UpdateBasketHoldings(mbtAmount, bgtValue, bstValue, bptValue, isMint) ==
    LET h1 == HoldingsDelta(GetBasketHoldings, mbtAmount, bgtValue, bstValue, bptValue, isMint)
        h2 == [h1 EXCEPT !.rebalanceNeeded = CheckRebalanceNeeded(h1)]
    IN  IF MarshalableHoldings(h2)
        THEN [err |-> "OK", holdings |-> h2]
        ELSE [err |-> "MarshalError", holdings |-> h2]

-----------------------------------------------------------------------------
(* Invocations *)

\* the name of the invoked function and the error it returned ("OK": nil)
Call(op, err) == [op |-> op, err |-> err]

\* an invocation that returned a value and no error
Returned(op, value) == [op |-> op, err |-> "OK", value |-> value]

\* a token id under which MintMBT never stores a token
NoToken == -1

\* no Mint was the last invocation
NoMint == [none |-> TRUE]

\* no loop of ExecuteRebalance is in progress
NotExecuting == [none |-> TRUE]

\* the backend's database holds no transaction and no request is being handled
NoSells == [transactions |-> << >>, handlers |-> << >>]

\* the four totals of an aggregate record
Totals(h) ==
    [supply |-> h.totalMbtSupply, bgt |-> h.totalBgtValue,
     bst |-> h.totalBstValue, bpt |-> h.totalBptValue]

\* an invocation that returned an error: nothing is committed
Fail(op, err) ==
    /\ last' = Call(op, err)
    /\ UNCHANGED <<tokens, holdings>>

\* GetUserBalance: a simulated, fixed balance
GetUserBalance(userID, amount) == F(SimulatedBalance)

\* mutant of BalanceBelow: the balance check is dropped
BalanceNeverBelow(balance, totalAmount) == FALSE

\* MintMBT's balance check
BalanceBelow(balance, totalAmount) == FLt(balance, totalAmount)

\* mutant of Allocation: silver and platinum shares swapped
AllocationSwapped(totalAmount) ==
    [gold |-> FMul(totalAmount, GOLD_ALLOCATION),
     silver |-> FMul(totalAmount, PLATINUM_ALLOCATION),
     platinum |-> FMul(totalAmount, SILVER_ALLOCATION)]

\* MintMBT's allocation amounts
Allocation(totalAmount) ==
    [gold |-> FMul(totalAmount, GOLD_ALLOCATION),
     silver |-> FMul(totalAmount, SILVER_ALLOCATION),
     platinum |-> FMul(totalAmount, PLATINUM_ALLOCATION)]

\* MintMBT's token id, "MBT-<UnixNano>"
NewTokenID == UnixNano(now)

NewToken(owner, totalAmount) ==
    LET a == Allocation(totalAmount)
    IN  [owner |-> owner,
         totalValue |-> totalAmount,
         bgtAmount |-> a.gold,
         bstAmount |-> a.silver,
         bptAmount |-> a.platinum,
         creationTime |-> FormatRFC3339(now),
         lastRebalance |-> FormatRFC3339(now)]

MintMBT(owner, totalAmount, userID) ==
    /\ calls < MaxCalls
    /\ calls' = calls + 1
    /\ UNCHANGED now
    /\ IF BalanceBelow(GetUserBalance(userID, totalAmount), totalAmount)
       THEN Fail("Mint", "InsufficientFunds")
       ELSE LET a == Allocation(totalAmount)
                tokenID == NewTokenID
                mbtToken == NewToken(owner, totalAmount)
                upd == UpdateBasketHoldings(totalAmount, a.gold, a.silver, a.platinum, TRUE)
            IN  IF ~MarshalableToken(mbtToken) \/ upd.err # "OK"
                THEN Fail("Mint", "MarshalError")
                ELSE /\ tokens' = Put(tokens, tokenID, mbtToken)
                     /\ holdings' = upd.holdings
                     /\ last' = Call("Mint", "OK")

\* mutant of OwnerMismatch: ownership is not verified
OwnerNeverMismatch(token, userID) == FALSE

\* RedeemMBT's checks
OwnerMismatch(token, userID) == token.owner # userID
ExceedsTokenValue(amount, token) == FLt(token.totalValue, amount)

\* mutant of Redemption: the ratio is inverted (totalValue / amount)
RedemptionInverted(token, amount) ==
    LET redemptionRatio == FDiv(token.totalValue, amount)
    IN  [bgt |-> FMul(token.bgtAmount, redemptionRatio),
         bst |-> FMul(token.bstAmount, redemptionRatio),
         bpt |-> FMul(token.bptAmount, redemptionRatio)]

\* RedeemMBT's redemption amounts
Redemption(token, amount) ==
    LET redemptionRatio == FDiv(amount, token.totalValue)
    IN  [bgt |-> FMul(token.bgtAmount, redemptionRatio),
         bst |-> FMul(token.bstAmount, redemptionRatio),
         bpt |-> FMul(token.bptAmount, redemptionRatio)]

\* mutant of ReducedToken: the platinum amount is not reduced
ReducedTokenKeepsPlatinum(token, amount, r) ==
    [token EXCEPT !.totalValue = FSub(@, amount),
                  !.bgtAmount = FSub(@, r.bgt),
                  !.bstAmount = FSub(@, r.bst),
                  !.lastRebalance = FormatRFC3339(now)]

\* the token record a partial redemption stores
ReducedToken(token, amount, r) ==
    [token EXCEPT !.totalValue = FSub(@, amount),
                  !.bgtAmount = FSub(@, r.bgt),
                  !.bstAmount = FSub(@, r.bst),
                  !.bptAmount = FSub(@, r.bpt),
                  !.lastRebalance = FormatRFC3339(now)]

\* mutant of FullRedemption: a full redemption is stored as a partial one
FullRedemptionNever(amount, token) == FALSE

\* RedeemMBT's test for a full redemption
FullRedemption(amount, token) == FEq(amount, token.totalValue)

RedeemMBT(tokenID, amount, userID) ==
    /\ calls < MaxCalls
    /\ calls' = calls + 1
    /\ UNCHANGED now
    /\ IF tokenID \notin DOMAIN tokens
       THEN Fail("Redeem", "NotFound")
       ELSE LET token == tokens[tokenID] IN
            IF OwnerMismatch(token, userID)
            THEN Fail("Redeem", "Unauthorized")
            ELSE IF ExceedsTokenValue(amount, token)
            THEN Fail("Redeem", "InsufficientBalance")
            ELSE LET r == Redemption(token, amount)
                     full == FullRedemption(amount, token)
                     reduced == ReducedToken(token, amount, r)
                     upd == UpdateBasketHoldings(amount, r.bgt, r.bst, r.bpt, FALSE)
                 IN  IF (~full /\ ~MarshalableToken(reduced)) \/ upd.err # "OK"
                     THEN Fail("Redeem", "MarshalError")
                     ELSE /\ tokens' = IF full THEN Del(tokens, tokenID)
                                       ELSE Put(tokens, tokenID, reduced)
                          /\ holdings' = upd.holdings
                          /\ last' = Call("Redeem", "OK")

\* an invocation of GetBasketHoldings: the record is returned to the caller;
\* the all-zero record built when none is stored is not written to the store
GetHoldings ==
    /\ calls < MaxCalls
    /\ calls' = calls + 1
    /\ UNCHANGED <<now, tokens, holdings, rebalVars, txVars>>
    /\ premint' = NoMint
    /\ last' = Call("GetHoldings", "OK")

\* GetMBTPrices
GetMBTPrices == [BGT |-> F(5800), BST |-> F(75), BPT |-> F(3200)]

\* CalculateMBTNAV's total basket value
BasketValue(h) ==
    FAdd(FAdd(FMul(h.totalBgtValue, GetMBTPrices["BGT"]),
              FMul(h.totalBstValue, GetMBTPrices["BST"])),
         FMul(h.totalBptValue, GetMBTPrices["BPT"]))

\* mutant of NAV: the supply is not tested before the division
NAVUnguarded(h) == FDiv(BasketValue(h), h.totalMbtSupply)

\* the value CalculateMBTNAV returns for the aggregate record
NAV(h) ==
    IF FEq(h.totalMbtSupply, F(0)) THEN F(0)
    ELSE FDiv(BasketValue(h), h.totalMbtSupply)

\* an invocation of CalculateMBTNAV
CalculateMBTNAV ==
    /\ calls < MaxCalls
    /\ calls' = calls + 1
    /\ UNCHANGED <<now, tokens, holdings, rebalVars, txVars>>
    /\ premint' = NoMint
    /\ last' = Returned("CalculateMBTNAV", NAV(GetBasketHoldings))

\* mutant of RebalancedHoldings: the platinum target uses the silver share
RebalancedHoldingsWrongShare(h) ==
    LET totalValue == TotalMetalValue(h)
    IN  [h EXCEPT !.totalBgtValue = FMul(totalValue, GOLD_ALLOCATION),
                  !.totalBstValue = FMul(totalValue, SILVER_ALLOCATION),
                  !.totalBptValue = FMul(totalValue, SILVER_ALLOCATION),
                  !.rebalanceNeeded = FALSE,
                  !.lastRebalance = FormatRFC3339(now)]

\* the record RebalanceBasket stores
RebalancedHoldings(h) ==
    LET totalValue == TotalMetalValue(h)
    IN  [h EXCEPT !.totalBgtValue = FMul(totalValue, GOLD_ALLOCATION),
                  !.totalBstValue = FMul(totalValue, SILVER_ALLOCATION),
                  !.totalBptValue = FMul(totalValue, PLATINUM_ALLOCATION),
                  !.rebalanceNeeded = FALSE,
                  !.lastRebalance = FormatRFC3339(now)]

RebalanceBasket ==
    /\ calls < MaxCalls
    /\ calls' = calls + 1
    /\ UNCHANGED <<now, tokens, rebalVars, txVars>>
    /\ premint' = NoMint
    /\ last' = Call("RebalanceBasket", "OK")
    /\ LET h == GetBasketHoldings IN
       IF ~h.rebalanceNeeded THEN UNCHANGED holdings
       ELSE IF FEq(TotalMetalValue(h), F(0)) THEN UNCHANGED holdings
       ELSE holdings' = RebalancedHoldings(h)

\* the clock advances by one tick (its resolution)
Tick ==
    /\ (now % IntervalTicks) < MaxTicks
    /\ now' = now + 1
    /\ UNCHANGED <<tokens, holdings, last, calls, premint, rebalVars, txVars>>

\* the clock advances by a whole rebalance interval
AdvanceInterval ==
    /\ (now \div IntervalTicks) < MaxJumps
    /\ now' = now + IntervalTicks
    /\ UNCHANGED <<tokens, holdings, last, calls, premint, rebalVars, txVars>>

-----------------------------------------------------------------------------
(* Concurrent invocations of the basket contract.  A transaction is simulated
   on a peer against the committed world state: GetState puts the version of
   the key it reads in the transaction's read set, PutState and DelState put
   the key in its write set.  At commit the transaction is applied only if
   every key of its read set still has the version that was read. *)

\* the version of a key that is not stored
NoVersion == 0

\* the key is not in the read set
NoRead == -1

\* mutant of ReadBasketHoldings: the aggregate record is not read through
\* GetState, so it is not in the read set
BasketHoldingsNotRead == NoRead

\* GetBasketHoldings' GetState("BASKET_HOLDINGS"): the version read
ReadBasketHoldings == version.holdings

\* GetMBTToken's GetState(tokenID): the version read
ReadToken(tokenID) ==
    IF tokenID \in DOMAIN version.tokens THEN version.tokens[tokenID] ELSE NoVersion

\* the outcome of simulating MintMBT: its error, or its read and write sets
MintWrites(owner, totalAmount, userID) ==
    IF BalanceBelow(GetUserBalance(userID, totalAmount), totalAmount)
    THEN [err |-> "InsufficientFunds"]
    ELSE LET a == Allocation(totalAmount)
             mbtToken == NewToken(owner, totalAmount)
             upd == UpdateBasketHoldings(totalAmount, a.gold, a.silver, a.platinum, TRUE)
         IN  IF ~MarshalableToken(mbtToken) \/ upd.err # "OK"
             THEN [err |-> "MarshalError"]
             ELSE [err |-> "OK",
                   reads |-> [holdings |-> ReadBasketHoldings, token |-> NoRead],
                   tokenID |-> NewTokenID, token |-> mbtToken, deleted |-> FALSE,
                   holdings |-> upd.holdings,
                   delta |-> [supply |-> totalAmount, bgt |-> a.gold,
                              bst |-> a.silver, bpt |-> a.platinum]]

\* the outcome of simulating RedeemMBT
RedeemWrites(tokenID, amount, userID) ==
    IF tokenID \notin DOMAIN tokens
    THEN [err |-> "NotFound"]
    ELSE LET token == tokens[tokenID] IN
         IF OwnerMismatch(token, userID)
         THEN [err |-> "Unauthorized"]
         ELSE IF ExceedsTokenValue(amount, token)
         THEN [err |-> "InsufficientBalance"]
         ELSE LET r == Redemption(token, amount)
                  full == FullRedemption(amount, token)
                  reduced == ReducedToken(token, amount, r)
                  upd == UpdateBasketHoldings(amount, r.bgt, r.bst, r.bpt, FALSE)
              IN  IF (~full /\ ~MarshalableToken(reduced)) \/ upd.err # "OK"
                  THEN [err |-> "MarshalError"]
                  ELSE [err |-> "OK",
                        reads |-> [holdings |-> ReadBasketHoldings, token |-> ReadToken(tokenID)],
                        tokenID |-> tokenID, token |-> reduced, deleted |-> full,
                        holdings |-> upd.holdings,
                        delta |-> [supply |-> FNeg(amount), bgt |-> FNeg(r.bgt),
                                   bst |-> FNeg(r.bst), bpt |-> FNeg(r.bpt)]]

\* a simulated invocation: a chaincode error is returned to the caller and
\* nothing is submitted; otherwise the transaction waits for its commit
Simulated(op, w, maxCalls) ==
    /\ calls < maxCalls
    /\ Cardinality(pending) < MaxPending
    /\ calls' = calls + 1
    /\ IF w.err # "OK"
       THEN /\ last' = Call(op, w.err)
            /\ UNCHANGED pending
       ELSE /\ pending' = pending \cup {[tx |-> calls + 1, op |-> op, w |-> w]}
            /\ UNCHANGED last
    /\ UNCHANGED <<now, basketVars, rebalVars, version, applied, exec, backend>>

SimulateMint(owner, totalAmount, userID) ==
    Simulated("Mint", MintWrites(owner, totalAmount, userID), MaxCalls)

SimulateRedeem(tokenID, amount, userID) ==
    Simulated("Redeem", RedeemWrites(tokenID, amount, userID), MaxCalls)

\* the validation of a transaction of the basket contract at commit
BasketReadsCurrent(w) ==
    /\ w.reads.holdings = NoRead \/ w.reads.holdings = version.holdings
    /\ w.reads.token = NoRead \/ w.reads.token = ReadToken(w.tokenID)

AddTotals(a, b) ==
    [supply |-> FAdd(a.supply, b.supply), bgt |-> FAdd(a.bgt, b.bgt),
     bst |-> FAdd(a.bst, b.bst), bpt |-> FAdd(a.bpt, b.bpt)]

\* the commit of a simulated transaction of the basket contract
CommitBasket(t) ==
    /\ pending' = pending \ {t}
    /\ UNCHANGED <<now, calls, premint, rebalVars, exec, backend>>
    /\ IF BasketReadsCurrent(t.w)
       THEN /\ tokens' = IF t.w.deleted THEN Del(tokens, t.w.tokenID)
                         ELSE Put(tokens, t.w.tokenID, t.w.token)
            /\ holdings' = t.w.holdings
            /\ version' = [version EXCEPT
                             !.height = @ + 1,
                             !.holdings = version.height + 1,
                             !.tokens = IF t.w.deleted THEN Del(@, t.w.tokenID)
                                        ELSE Put(@, t.w.tokenID, version.height + 1)]
            /\ applied' = [applied EXCEPT !.totals = AddTotals(@, t.w.delta)]
            /\ last' = Call(t.op, "OK")
       ELSE /\ last' = Call(t.op, "MVCC_READ_CONFLICT")
            /\ UNCHANGED <<tokens, holdings, version, applied>>

-----------------------------------------------------------------------------
(* The rebalancing contract (mbt_rebalancing_chaincode.go) *)

Metals == {"gold", "silver", "platinum"}

\* the ExecutedAt of a request that has not been approved or executed ("")
NoTime == -1

\* a request id under which no request is stored
NoRequest == -1

\* a >= b
FGe(a, b) == ~IsNaN(a) /\ ~IsNaN(b) /\ ~FLt(a, b)

\* the policy InitializePolicy stores
DefaultPolicy ==
    [goldAllocation |-> Norm(50, 100),
     silverAllocation |-> Norm(30, 100),
     platinumAllocation |-> Norm(20, 100),
     maxDeviationPercent |-> Norm(5, 100),
     rebalanceIntervalDays |-> 30,
     minTradeAmount |-> F(1000),
     approvalThreshold |-> F(100000)]

\* an invocation of the rebalancing contract that returned an error
RFail(op, err) ==
    /\ last' = Call(op, err)
    /\ UNCHANGED <<now, rebalVars>>

InitializePolicy ==
    /\ calls < MaxRebalCalls
    /\ calls' = calls + 1
    /\ policy' = DefaultPolicy
    /\ last' = Call("InitializePolicy", "OK")
    /\ UNCHANGED <<now, requests, operations, rholdings, basketVars>>

\* mutant of GetRebalancePolicy: the default policy is used while none is stored
GetRebalancePolicyOrDefault ==
    [err |-> "OK", policy |-> IF policy = NoPolicy THEN DefaultPolicy ELSE policy]

\* GetRebalancePolicy: the stored policy, or an error when none is stored
GetRebalancePolicy ==
    IF policy = NoPolicy
    THEN [err |-> "PolicyNotInitialized", policy |-> NoPolicy]
    ELSE [err |-> "OK", policy |-> policy]

\* GetBasketHoldings of the rebalancing contract: fixed data, dated 35 days
\* before the call; no world state is read
RebalancingGetBasketHoldings ==
    [totalMbtSupply |-> F(10000),
     totalBgtValue |-> F(5000),
     totalBstValue |-> F(3000),
     totalBptValue |-> F(2000),
     rebalanceNeeded |-> FALSE,
     lastRebalance |-> FormatRFC3339(now - 35 * TicksPerDay)]

\* GetCurrentMetalPrices
GetCurrentMetalPrices == [BGT |-> F(5800), BST |-> F(75), BPT |-> F(3200)]

metalMapping == [gold |-> "BGT", silver |-> "BST", platinum |-> "BPT"]

MetalValue(h, metal) ==
    IF metal = "gold" THEN h.totalBgtValue
    ELSE IF metal = "silver" THEN h.totalBstValue
    ELSE h.totalBptValue

\* EvaluateRebalanceNeed's allocation maps
CurrentAlloc(h) ==
    [metal \in Metals |-> FDiv(MetalValue(h, metal), TotalMetalValue(h))]

TargetAlloc(p) ==
    [metal \in Metals |->
        IF metal = "gold" THEN p.goldAllocation
        ELSE IF metal = "silver" THEN p.silverAllocation
        ELSE p.platinumAllocation]

Deviations(currentAlloc, targetAlloc) ==
    [metal \in Metals |-> FSub(currentAlloc[metal], targetAlloc[metal])]

\* the largest math.Abs(deviation) that is > 0.0, or 0.0
MaxDeviation(deviations) ==
    LET above == {metal \in Metals : FLt(F(0), abs(deviations[metal]))}
    IN  IF above = {} THEN F(0)
        ELSE abs(deviations[CHOOSE metal \in above :
                    \A other \in above : ~FLt(abs(deviations[metal]), abs(deviations[other]))])

\* the metals the deviation triggerReason can name: the loop over the map
\* visits the metals in any order and keeps the first that reaches the maximum
ReasonMetals(deviations) ==
    {metal \in Metals : /\ FLt(F(0), abs(deviations[metal]))
                        /\ FEq(abs(deviations[metal]), MaxDeviation(deviations))}

\* EvaluateRebalanceNeed's time-based check
LastRebalanceOrAssumed(h) ==
    IF ParseError(h.lastRebalance) THEN now - TicksPerDay
    ELSE ParseRFC3339(h.lastRebalance)

Overdue(h, p) ==
    now - LastRebalanceOrAssumed(h) >= p.rebalanceIntervalDays * TicksPerDay

\* the triggerType EvaluateRebalanceNeed ends with ("": none)
TriggerType(h, p, deviations) ==
    IF Overdue(h, p) /\ FLt(MaxDeviation(deviations), p.maxDeviationPercent) THEN "TIME"
    ELSE IF FLt(F(0), MaxDeviation(deviations)) THEN "DEVIATION"
    ELSE ""

\* the triggerReason EvaluateRebalanceNeed ends with: the scheduled rebalancing
\* for a TIME trigger, else a metal with the largest deviation
TriggerReasons(h, p, deviations) ==
    IF TriggerType(h, p, deviations) = "TIME"
    THEN {<<"TIME", "scheduled">>}
    ELSE {<<"DEVIATION", metal>> : metal \in ReasonMetals(deviations)}

\* mutant of RequestNeeded: any trigger creates a request
RequestNeededOnTrigger(h, p, deviations) ==
    TriggerType(h, p, deviations) # ""

\* EvaluateRebalanceNeed's final test: a request is created
RequestNeeded(h, p, deviations) ==
    /\ TriggerType(h, p, deviations) # ""
    /\ FGe(MaxDeviation(deviations), p.maxDeviationPercent)

\* the orders in which a loop over a map of the three metals visits them
Orders == {o \in [1..3 -> Metals] : {o[i] : i \in 1..3} = Metals}

\* gaps[n]: whether the clock has advanced (by its resolution) between the
\* readings that give the n-th and the next operation of a request their ids
Gaps == [1..2 -> 0..1]

\* CreateRebalanceRequest's largest trade amount
MaxTradeAmount(deviations, totalValue) ==
    LET nonzero == {metal \in Metals : ~FEq(deviations[metal], F(0))}
        over == {metal \in nonzero : FLt(F(0), FMul(totalValue, abs(deviations[metal])))}
    IN  IF over = {} THEN F(0)
        ELSE FMul(totalValue, abs(deviations[CHOOSE metal \in over :
                    \A other \in over : ~FLt(abs(deviations[metal]), abs(deviations[other]))]))

\* mutant of ApprovalRequired: a trade of exactly the threshold needs no approval
ApprovalRequiredAbove(deviations, totalValue, p) ==
    FLt(p.approvalThreshold, MaxTradeAmount(deviations, totalValue))

ApprovalRequired(deviations, totalValue, p) ==
    FGe(MaxTradeAmount(deviations, totalValue), p.approvalThreshold)

NewRequest(currentAlloc, targetAlloc, deviations, requestType, reason, approvalRequired) ==
    [basketId |-> "MBT_BASKET",
     requestType |-> requestType,
     triggerReason |-> reason,
     currentAllocation |-> currentAlloc,
     targetAllocation |-> targetAlloc,
     deviations |-> deviations,
     status |-> "PENDING",
     createdAt |-> FormatRFC3339(now),
     executedAt |-> NoTime,
     approvalRequired |-> approvalRequired]

MarshalableRequest(r) ==
    \A metal \in Metals : /\ IsFinite(r.currentAllocation[metal])
                          /\ IsFinite(r.targetAllocation[metal])
                          /\ IsFinite(r.deviations[metal])

\* GenerateRebalanceOperations' operation for one metal
NewOperation(requestID, metal, deviation, totalValue, t) ==
    LET tradeAmount == FMul(abs(deviation), totalValue)
        unitPrice == GetCurrentMetalPrices[metalMapping[metal]]
    IN  [requestId |-> requestID,
         metalType |-> metalMapping[metal],
         operationType |-> IF FLt(deviation, F(0)) THEN "SELL" ELSE "BUY",
         amount |-> tradeAmount,
         currentPrice |-> unitPrice,
         estimatedCost |-> FMul(tradeAmount, unitPrice),
         timestamp |-> FormatRFC3339(t)]

\* mutant of SkipsOperation: the minimum trade amount is not tested
SkipsSmallDeviation(deviation, totalValue, p) ==
    FLt(abs(deviation), Norm(1, 1000))

\* GenerateRebalanceOperations' tests that skip a metal
SkipsOperation(deviation, totalValue, p) ==
    \/ FLt(abs(deviation), Norm(1, 1000))
    \/ FLt(FMul(abs(deviation), totalValue), p.minTradeAmount)

\* GenerateRebalanceOperations' loop from the i-th metal of the order on, after
\* n operations were stored, the last one at clock reading t: the operations
\* stored and the last clock reading
RECURSIVE GenerateRebalanceOperations(_, _, _, _, _, _, _, _, _, _)
GenerateRebalanceOperations(ops, t, n, requestID, deviations, totalValue, p, order, gaps, i) ==
    IF i > 3 THEN [operations |-> ops, clock |-> t]
    ELSE LET metal == order[i]
             deviation == deviations[metal]
             reading == IF n = 0 THEN t ELSE t + gaps[n]
         IN  IF SkipsOperation(deviation, totalValue, p)
             THEN GenerateRebalanceOperations(ops, t, n, requestID, deviations, totalValue, p,
                                              order, gaps, i + 1)
             ELSE GenerateRebalanceOperations(
                      Put(ops, UnixNano(reading),
                          NewOperation(requestID, metal, deviation, totalValue, reading)),
                      reading, n + 1, requestID, deviations, totalValue, p, order, gaps, i + 1)

\* the body of CreateRebalanceRequest, invoked as op
CreateRequest(op, currentAlloc, targetAlloc, deviations, requestType, reason) ==
    IF GetRebalancePolicy.err # "OK"
    THEN RFail(op, "PolicyNotInitialized")
    ELSE LET requestID == UnixNano(now)
             h == RebalancingGetBasketHoldings
             totalValue == TotalMetalValue(h)
             request == NewRequest(currentAlloc, targetAlloc, deviations, requestType, reason,
                                   ApprovalRequired(deviations, totalValue,
                                                    GetRebalancePolicy.policy))
         IN  IF ~MarshalableRequest(request)
             THEN RFail(op, "MarshalError")
             ELSE \E order \in Orders, gaps \in Gaps :
                     LET g == GenerateRebalanceOperations(operations, now, 0, requestID,
                                                          deviations, totalValue,
                                                          GetRebalancePolicy.policy,
                                                          order, gaps, 1)
                     IN  /\ requests' = Put(requests, requestID, request)
                         /\ operations' = g.operations
                         /\ now' = g.clock
                         /\ last' = Call(op, "OK")
                         /\ UNCHANGED <<policy, rholdings>>

\* an invocation of CreateRebalanceRequest
CreateRebalanceRequest(currentAlloc, targetAlloc, deviations, requestType, reason) ==
    /\ calls < MaxRebalCalls
    /\ calls' = calls + 1
    /\ UNCHANGED basketVars
    /\ CreateRequest("Create", currentAlloc, targetAlloc, deviations, requestType, reason)

EvaluateRebalanceNeed ==
    /\ calls < MaxRebalCalls
    /\ calls' = calls + 1
    /\ UNCHANGED <<basketVars, txVars>>
    /\ LET h == RebalancingGetBasketHoldings IN
       IF FEq(h.totalMbtSupply, F(0))
       THEN /\ last' = Call("Evaluate", "OK")
            /\ UNCHANGED <<now, rebalVars>>
       ELSE IF GetRebalancePolicy.err # "OK"
       THEN RFail("Evaluate", "PolicyNotInitialized")
       ELSE IF FEq(TotalMetalValue(h), F(0))
       THEN /\ last' = Call("Evaluate", "OK")
            /\ UNCHANGED <<now, rebalVars>>
       ELSE LET p == GetRebalancePolicy.policy
                currentAlloc == CurrentAlloc(h)
                targetAlloc == TargetAlloc(p)
                deviations == Deviations(currentAlloc, targetAlloc)
                triggerType == TriggerType(h, p, deviations)
            IN  IF RequestNeeded(h, p, deviations)
                THEN \E reason \in TriggerReasons(h, p, deviations) :
                        CreateRequest("Evaluate", currentAlloc, targetAlloc, deviations,
                                      triggerType, reason)
                ELSE /\ last' = Call("Evaluate", "OK")
                     /\ UNCHANGED <<now, rebalVars>>

\* mutant of NeedsNoApproval: the approvalRequired test is dropped
NeverNeedsNoApproval(request) == FALSE

\* ApproveRebalanceRequest's tests
NotPending(request) == request.status # "PENDING"
NeedsNoApproval(request) == ~request.approvalRequired

\* ApproveRebalanceRequest's reads, tests and write
Approval(requestID, approverID) ==
    IF requestID \notin DOMAIN requests
    THEN RFail("Approve", "NotFound")
    ELSE LET request == requests[requestID] IN
         IF NotPending(request)
         THEN RFail("Approve", "InvalidState")
         ELSE IF NeedsNoApproval(request)
         THEN RFail("Approve", "InvalidState")
         ELSE /\ requests' = Put(requests, requestID,
                                 [request EXCEPT !.status = "APPROVED",
                                                 !.executedAt = FormatRFC3339(now)])
              /\ last' = Call("Approve", "OK")
              /\ UNCHANGED <<now, policy, operations, rholdings>>

ApproveRebalanceRequest(requestID, approverID) ==
    /\ calls < MaxRebalCalls
    /\ calls' = calls + 1
    /\ UNCHANGED <<basketVars, txVars>>
    /\ Approval(requestID, approverID)

\* mutant of ReadyForExecution: a request is executed whatever its status
AlwaysReadyForExecution(request) == TRUE

\* mutant of ReadyForExecution: a pending request is executed whether or not
\* it requires approval
ReadyWhenPending(request) ==
    \/ request.status = "APPROVED"
    \/ request.status = "PENDING"

\* mutant of ReadyForExecution: only an approved request is executed
ReadyOnlyWhenApproved(request) == request.status = "APPROVED"

\* ExecuteRebalance's test of the request's status
ReadyForExecution(request) ==
    \/ request.status = "APPROVED"
    \/ (request.status = "PENDING" /\ ~request.approvalRequired)

\* ExecuteOperation: the operation is logged; it never fails
ExecuteOperation(operation) == "OK"

\* the stored operations that ExecuteRebalance executes: those whose requestId
\* is the request's (the request record itself also decodes as such an
\* operation; ExecuteOperation does nothing with either)
OperationsOf(requestID) ==
    {id \in DOMAIN operations : operations[id].requestId = requestID}

\* mutant of HoldingsAfterRebalance: the supply is adjusted like the gold total
HoldingsAfterRebalanceWithSupply(h, deviations) ==
    LET totalValue == TotalMetalValue(h)
    IN  [h EXCEPT !.totalMbtSupply = FAdd(@, FMul(deviations["gold"], totalValue)),
                  !.totalBgtValue = FAdd(@, FMul(deviations["gold"], totalValue)),
                  !.totalBstValue = FAdd(@, FMul(deviations["silver"], totalValue)),
                  !.totalBptValue = FAdd(@, FMul(deviations["platinum"], totalValue)),
                  !.rebalanceNeeded = FALSE,
                  !.lastRebalance = FormatRFC3339(now)]

\* the record UpdateBasketAfterRebalance computes
HoldingsAfterRebalance(h, deviations) ==
    LET totalValue == TotalMetalValue(h)
    IN  [h EXCEPT !.totalBgtValue = FAdd(@, FMul(deviations["gold"], totalValue)),
                  !.totalBstValue = FAdd(@, FMul(deviations["silver"], totalValue)),
                  !.totalBptValue = FAdd(@, FMul(deviations["platinum"], totalValue)),
                  !.rebalanceNeeded = FALSE,
                  !.lastRebalance = FormatRFC3339(now)]

\* UpdateBasketAfterRebalance: the BASKET_HOLDINGS record of the rebalancing
\* contract afterwards (an error is only logged by ExecuteRebalance)
UpdateBasketAfterRebalance(deviations) ==
    LET h == RebalancingGetBasketHoldings
    IN  IF FEq(TotalMetalValue(h), F(0)) THEN rholdings
        ELSE IF ~MarshalableHoldings(HoldingsAfterRebalance(h, deviations)) THEN rholdings
        ELSE HoldingsAfterRebalance(h, deviations)

\* the request ExecuteRebalance stores: FAILED when an operation failed
ExecutedRequest(requestID, request) ==
    IF \E id \in OperationsOf(requestID) : ExecuteOperation(operations[id]) # "OK"
    THEN [request EXCEPT !.status = "FAILED"]
    ELSE [request EXCEPT !.status = "EXECUTED", !.executedAt = FormatRFC3339(now)]

ExecuteRebalance(requestID) ==
    /\ calls < MaxRebalCalls
    /\ calls' = calls + 1
    /\ UNCHANGED <<basketVars, txVars>>
    /\ IF requestID \notin DOMAIN requests
       THEN RFail("Execute", "UnmarshalError")
       ELSE LET request == requests[requestID] IN
            IF ~ReadyForExecution(request)
            THEN RFail("Execute", "NotReady")
            ELSE LET executed == ExecutedRequest(requestID, request) IN
                 /\ requests' = Put(requests, requestID, executed)
                 /\ rholdings' = IF executed.status # "FAILED"
                                 THEN UpdateBasketAfterRebalance(request.deviations)
                                 ELSE rholdings
                 /\ last' = Call("Execute", "OK")
                 /\ UNCHANGED <<now, policy, operations>>

-----------------------------------------------------------------------------
(* Concurrent invocations of the rebalancing contract *)

\* GetState(requestID): the version read
ReadRequest(requestID) ==
    IF requestID \in DOMAIN version.requests THEN version.requests[requestID] ELSE NoVersion

\* the read set of ApproveRebalanceRequest: the request
ApproveReads(requestID) == [request |-> ReadRequest(requestID), range |-> NoRead]

\* mutant of ExecuteReads: the request and the operations are not read through
\* the stub, so nothing is in the read set
ExecuteReadsNothing(requestID) == [request |-> NoRead, range |-> NoRead]

\* the read set of ExecuteRebalance: the request, and GetStateByRange("", "")
\* over every key of the contract (any commit since changes its result)
ExecuteReads(requestID) == [request |-> ReadRequest(requestID), range |-> version.height]

\* the outcome of simulating ApproveRebalanceRequest
ApproveWrites(requestID, approverID) ==
    IF requestID \notin DOMAIN requests
    THEN [err |-> "NotFound"]
    ELSE LET request == requests[requestID] IN
         IF NotPending(request) \/ NeedsNoApproval(request)
         THEN [err |-> "InvalidState"]
         ELSE [err |-> "OK",
               reads |-> ApproveReads(requestID),
               requestID |-> requestID,
               request |-> [request EXCEPT !.status = "APPROVED",
                                           !.executedAt = FormatRFC3339(now)],
               executes |-> FALSE,
               holdingsWritten |-> FALSE,
               holdings |-> NoHoldings]

\* the outcome of simulating ExecuteRebalance
ExecuteWrites(requestID) ==
    IF requestID \notin DOMAIN requests
    THEN [err |-> "UnmarshalError"]
    ELSE LET request == requests[requestID] IN
         IF ~ReadyForExecution(request)
         THEN [err |-> "NotReady"]
         ELSE LET executed == ExecutedRequest(requestID, request)
                  h == RebalancingGetBasketHoldings
                  after == HoldingsAfterRebalance(h, request.deviations)
              IN  [err |-> "OK",
                   reads |-> ExecuteReads(requestID),
                   requestID |-> requestID,
                   request |-> executed,
                   executes |-> executed.status = "EXECUTED",
                   holdingsWritten |-> /\ executed.status # "FAILED"
                                       /\ ~FEq(TotalMetalValue(h), F(0))
                                       /\ MarshalableHoldings(after),
                   holdings |-> after]

SimulateApprove(requestID, approverID) ==
    Simulated("Approve", ApproveWrites(requestID, approverID), MaxRebalCalls)

SimulateExecute(requestID) ==
    Simulated("Execute", ExecuteWrites(requestID), MaxRebalCalls)

\* the validation of a transaction of the rebalancing contract at commit
RebalancingReadsCurrent(w) ==
    /\ w.reads.request = NoRead \/ w.reads.request = ReadRequest(w.requestID)
    /\ w.reads.range = NoRead \/ w.reads.range = version.height

\* the commit of a simulated transaction of the rebalancing contract
CommitRebalancing(t) ==
    /\ pending' = pending \ {t}
    /\ UNCHANGED <<now, calls, basketVars, policy, operations, exec, backend>>
    /\ IF RebalancingReadsCurrent(t.w)
       THEN /\ requests' = Put(requests, t.w.requestID, t.w.request)
            /\ rholdings' = IF t.w.holdingsWritten THEN t.w.holdings ELSE rholdings
            /\ version' = [version EXCEPT
                             !.height = @ + 1,
                             !.requests = Put(@, t.w.requestID, version.height + 1)]
            /\ applied' = [applied EXCEPT
                             !.executions = IF t.w.executes
                                            THEN Put(@, t.w.requestID, @[t.w.requestID] + 1)
                                            ELSE @]
            /\ last' = Call(t.op, "OK")
       ELSE /\ last' = Call(t.op, "MVCC_READ_CONFLICT")
            /\ UNCHANGED <<requests, rholdings, version, applied>>

-----------------------------------------------------------------------------
(* Inputs *)

MintAmounts == {F(-1000), F(0), F(1000), F(2000000)}
RedeemAmounts == {F(-400), F(0), F(400), F(1000)}
TokenIds == (DOMAIN tokens) \cup {NoToken}

Init ==
    /\ now = 0
    /\ tokens = << >>
    /\ holdings = NoHoldings
    /\ last = Call("Init", "OK")
    /\ calls = 0
    /\ premint = NoMint
    /\ policy = NoPolicy
    /\ requests = << >>
    /\ operations = << >>
    /\ rholdings = NoHoldings
    /\ version = NoVersions
    /\ pending = {}
    /\ applied = NothingApplied
    /\ exec = NotExecuting
    /\ backend = NoSells

\* the paying user of a mint is the owner (GetUserBalance, DeductUserBalance and
\* AllocateToMetalTokens are simulations that do not read userID)
Mint == \E owner \in Owners, totalAmount \in MintAmounts :
            /\ MintMBT(owner, totalAmount, owner)
            /\ premint' = IF last'.err = "OK"
                           THEN [id |-> NewTokenID, totals |-> Totals(GetBasketHoldings)]
                           ELSE NoMint
            /\ UNCHANGED <<rebalVars, txVars>>

Redeem == \E tokenID \in TokenIds, amount \in RedeemAmounts, userID \in Users :
              /\ RedeemMBT(tokenID, amount, userID)
              /\ premint' = NoMint
              /\ UNCHANGED <<rebalVars, txVars>>

Next ==
    \/ Mint
    \/ Redeem
    \/ GetHoldings
    \/ CalculateMBTNAV
    \/ RebalanceBasket
    \/ Tick
    \/ AdvanceInterval

Spec == Init /\ [][Next]_vars

NextC ==
    \/ \E owner \in Owners, totalAmount \in MintAmounts :
          SimulateMint(owner, totalAmount, owner)
    \/ \E tokenID \in TokenIds, amount \in RedeemAmounts, userID \in Owners :
          SimulateRedeem(tokenID, amount, userID)
    \/ \E t \in pending : CommitBasket(t)
    \/ Tick

\* the basket contract with invocations simulated concurrently
SpecC == Init /\ [][NextC]_vars

\* the deviation maps CreateRebalanceRequest is invoked with: on target; gold
\* 10 points over; and deviations whose trades reach the approval threshold
DeviationInputs ==
    {[gold |-> F(0), silver |-> F(0), platinum |-> F(0)],
     [gold |-> Norm(1, 10), silver |-> Norm(-1, 20), platinum |-> Norm(-1, 20)],
     [gold |-> F(10), silver |-> F(-10), platinum |-> F(0)]}

RequestIds == (DOMAIN requests) \cup {NoRequest}

\* an invocation of CreateRebalanceRequest for a deviation map
CreateFor(deviations) ==
    CreateRebalanceRequest(
        [metal \in Metals |-> FAdd(TargetAlloc(DefaultPolicy)[metal], deviations[metal])],
        TargetAlloc(DefaultPolicy), deviations, "DEVIATION", <<"DEVIATION", "gold">>)

PolicyInit == InitializePolicy /\ UNCHANGED txVars

Create == \E deviations \in DeviationInputs :
              CreateFor(deviations) /\ UNCHANGED txVars

Approve == \E requestID \in RequestIds, approverID \in Users :
               ApproveRebalanceRequest(requestID, approverID)

Execute == \E requestID \in RequestIds : ExecuteRebalance(requestID)

NextR ==
    \/ PolicyInit
    \/ EvaluateRebalanceNeed
    \/ Create
    \/ Approve
    \/ Execute
    \/ Tick

\* the rebalancing contract, invoked one transaction after the other
SpecR == Init /\ [][NextR]_vars

\* the mints are of 1000 by the owner, the redemptions partial or full and by
\* the owner of a stored token, and CreateRebalanceRequest is invoked for the
\* deviation maps that are off target
NextBoth ==
    \/ \E owner \in Owners :
          /\ MintMBT(owner, F(1000), owner)
          /\ premint' = NoMint
          /\ UNCHANGED <<rebalVars, txVars>>
    \/ \E tokenID \in DOMAIN tokens, amount \in {F(400), F(1000)} :
          /\ RedeemMBT(tokenID, amount, tokens[tokenID].owner)
          /\ premint' = NoMint
          /\ UNCHANGED <<rebalVars, txVars>>
    \/ RebalanceBasket
    \/ AdvanceInterval
    \/ PolicyInit
    \/ EvaluateRebalanceNeed
    \/ \E deviations \in {d \in DeviationInputs : ~FEq(d["gold"], F(0))} :
          CreateFor(deviations) /\ UNCHANGED txVars
    \/ Approve
    \/ Execute

\* the basket contract and the rebalancing contract on one ledger history
SpecBoth == Init /\ [][NextBoth]_vars

\* InitializePolicy, committed at once
PolicyInitC ==
    /\ InitializePolicy
    /\ version' = [version EXCEPT !.height = @ + 1]
    /\ UNCHANGED <<pending, applied, exec, backend>>

\* CreateRebalanceRequest, committed at once: a new request is stored under
\* its id; no execution of it has been committed
CreateC ==
    \E deviations \in DeviationInputs :
        /\ CreateFor(deviations)
        /\ version' = IF last'.err = "OK"
                      THEN [version EXCEPT !.height = @ + 1,
                                           !.requests = Put(@, UnixNano(now), version.height + 1)]
                      ELSE version
        /\ applied' = IF last'.err = "OK"
                      THEN [applied EXCEPT !.executions = Put(@, UnixNano(now), 0)]
                      ELSE applied
        /\ UNCHANGED <<pending, exec, backend>>

NextRC ==
    \/ PolicyInitC
    \/ CreateC
    \/ \E requestID \in RequestIds, approverID \in Users :
          SimulateApprove(requestID, approverID)
    \/ \E requestID \in RequestIds : SimulateExecute(requestID)
    \/ \E t \in pending : CommitRebalancing(t)

\* the rebalancing contract with Approve and Execute simulated concurrently
SpecRC == Init /\ [][NextRC]_vars

-----------------------------------------------------------------------------
(* ExecuteRebalance with its loop: the invocation reads the request, opens an
   iterator over the whole world state of the chaincode
   (GetStateByRange("", "")), decodes every value as a RebalanceOperation and
   executes those whose requestId is the request's, then stores the request.
   Invocations are serialised: none starts while the loop is in progress. *)

RECURSIVE Ascending(_)
\* the elements of a finite set of integers in ascending order
Ascending(S) ==
    IF S = {} THEN << >>
    ELSE LET least == CHOOSE x \in S : \A y \in S : x <= y
         IN  <<least>> \o Ascending(S \ {least})

\* GetStateByRange("", ""): every key of the world state once, in key order
\* ("BASKET_HOLDINGS" < "OP-.." < "REBAL-.." < "REBALANCE_POLICY"); the stored
\* request, the policy and the holdings decode as operations too, the request
\* with its own requestId and the other two with an empty one
GetStateByRange ==
    LET operationIds == Ascending(DOMAIN operations)
        requestIds == Ascending(DOMAIN requests)
    IN  (IF rholdings = NoHoldings THEN << >>
         ELSE <<[kind |-> "BASKET_HOLDINGS", id |-> 0, requestId |-> NoRequest]>>)
        \o [i \in 1..Len(operationIds) |->
              [kind |-> "OP", id |-> operationIds[i],
               requestId |-> operations[operationIds[i]].requestId]]
        \o [i \in 1..Len(requestIds) |->
              [kind |-> "REBAL", id |-> requestIds[i], requestId |-> requestIds[i]]]
        \o (IF policy = NoPolicy THEN << >>
            ELSE <<[kind |-> "REBALANCE_POLICY", id |-> 0, requestId |-> NoRequest]>>)

\* ExecuteRebalance up to the opening of the iterator
ExecuteBegin(requestID) ==
    /\ exec = NotExecuting
    /\ UNCHANGED <<calls, basketVars, version, pending, applied, backend>>
    /\ IF requestID \notin DOMAIN requests
       THEN RFail("Execute", "UnmarshalError") /\ UNCHANGED exec
       ELSE IF ~ReadyForExecution(requests[requestID])
       THEN RFail("Execute", "NotReady") /\ UNCHANGED exec
       ELSE /\ exec' = [requestID |-> requestID,
                        request |-> requests[requestID],
                        iterator |-> GetStateByRange,
                        executedOperations |-> << >>]
            /\ UNCHANGED <<now, last, rebalVars>>

\* one iteration of ExecuteRebalance's loop: the next value is decoded and
\* executed when its requestId is the request's; a failed operation marks
\* the request FAILED and leaves the loop
ExecuteNext ==
    /\ exec # NotExecuting
    /\ exec.iterator # << >>
    /\ LET entry == Head(exec.iterator) IN
       IF entry.requestId # exec.requestID
       THEN exec' = [exec EXCEPT !.iterator = Tail(@)]
       ELSE IF ExecuteOperation(entry) # "OK"
       THEN exec' = [exec EXCEPT !.iterator = << >>, !.request.status = "FAILED"]
       ELSE exec' = [exec EXCEPT !.iterator = Tail(@),
                                 !.executedOperations = Append(@, entry)]
    /\ UNCHANGED <<now, last, calls, basketVars, rebalVars, version, pending, applied,
                   backend>>

\* ExecuteRebalance after its loop: the request and the holdings are stored
ExecuteReturn ==
    /\ exec # NotExecuting
    /\ exec.iterator = << >>
    /\ LET failed == exec.request.status = "FAILED"
           executed == IF failed THEN exec.request
                       ELSE [exec.request EXCEPT !.status = "EXECUTED",
                                                 !.executedAt = FormatRFC3339(now)]
       IN  /\ requests' = Put(requests, exec.requestID, executed)
           /\ rholdings' = IF failed THEN rholdings
                           ELSE UpdateBasketAfterRebalance(exec.request.deviations)
    /\ last' = Call("Execute", "OK")
    /\ exec' = NotExecuting
    /\ UNCHANGED <<now, calls, basketVars, policy, operations, version, pending, applied,
                   backend>>

\* the invocations of the rebalancing contract while no loop is in progress;
\* InitializePolicy and CreateRebalanceRequest are explored up to
\* MaxLiveCalls invocations, ApproveRebalanceRequest and ExecuteRebalance
\* without a limit
NextLive ==
    \/ exec = NotExecuting /\ calls < MaxLiveCalls /\ PolicyInit
    \/ exec = NotExecuting /\ calls < MaxLiveCalls /\ Create
    \/ exec = NotExecuting /\ Tick
    \/ \E requestID \in RequestIds, approverID \in Users :
          /\ exec = NotExecuting
          /\ Approval(requestID, approverID)
          /\ UNCHANGED <<calls, basketVars, txVars>>
    \/ \E requestID \in RequestIds : ExecuteBegin(requestID)
    \/ ExecuteNext
    \/ ExecuteReturn

\* the clock readings a request can be stored under: the first Create
\* follows InitializePolicy and at most MaxTicks ticks, and a Create advances
\* the clock by at most two readings
ClockReadings == 0 .. (MaxTicks + 2 * (MaxLiveCalls - 2))

\* an Approve that is not rejected
Approved ==
    \E requestID \in DOMAIN requests, approverID \in Users :
        /\ exec = NotExecuting
        /\ ~NotPending(requests[requestID])
        /\ ~NeedsNoApproval(requests[requestID])
        /\ Approval(requestID, approverID)
        /\ UNCHANGED <<calls, basketVars, txVars>>

\* an Execute that is not rejected
Started ==
    \E requestID \in DOMAIN requests :
        /\ ReadyForExecution(requests[requestID])
        /\ ExecuteBegin(requestID)

\* the rebalancing contract with the loop of ExecuteRebalance, under weak
\* fairness of Approve and Execute and of the steps of an invocation that
\* has started
SpecLive ==
    /\ Init
    /\ [][NextLive]_vars
    /\ WF_vars(Approved)
    /\ WF_vars(Started)
    /\ WF_vars(ExecuteNext)
    /\ WF_vars(ExecuteReturn)

-----------------------------------------------------------------------------
(* The backend's sell flow (server.js, POST /api/mbt/sell).  The handler is
   an async function: at every await the handlers of other requests run, so
   each action below is the code between two awaits of one request. *)

MBT_COMPOSITION == [gold |-> Norm(1, 2), silver |-> Norm(3, 10), platinum |-> Norm(1, 5)]
CURRENT_PRICES == [BGT |-> F(5800), BST |-> F(75), BPT |-> F(3200)]

\* the weighted price, rounded to cents: Math.round(x * 100) / 100, x >= 0
calculateCurrentNAV ==
    LET weightedPrice ==
            FAdd(FAdd(FMul(CURRENT_PRICES.BGT, MBT_COMPOSITION.gold),
                      FMul(CURRENT_PRICES.BST, MBT_COMPOSITION.silver)),
                 FMul(CURRENT_PRICES.BPT, MBT_COMPOSITION.platinum))
        scaled == FMul(weightedPrice, F(100))
    IN  FDiv(F((2 * scaled.n + scaled.d) \div (2 * scaled.d)), F(100))

\* verifyMBTTokenOwnership and redeemMBTTokens are stand-ins that succeed
verifyMBTTokenOwnership(tokenId, userId) == [valid |-> TRUE]
redeemMBTTokens(tokenId, amount, userId) == [success |-> TRUE]

\* the MBTTransaction record the handler creates
NewTransaction(userId, amount) ==
    LET saleValue == FMul(F(amount), calculateCurrentNAV)
    IN  [userId |-> userId,
         type |-> "SELL",
         mbtAmount |-> F(amount),
         totalValue |-> saleValue,
         bgtAllocation |-> FMul(saleValue, MBT_COMPOSITION.gold),
         bstAllocation |-> FMul(saleValue, MBT_COMPOSITION.silver),
         bptAllocation |-> FMul(saleValue, MBT_COMPOSITION.platinum),
         status |-> "PENDING"]

\* the handler up to the first save of the record; transactionId is
\* "MBT-SELL-<uuid>", an id no stored record has
Sell(amount, tokenId, userId) ==
    /\ Cardinality(DOMAIN backend.transactions) < MaxSells
    /\ UNCHANGED <<now, calls, basketVars, rebalVars, version, pending, applied, exec>>
    /\ IF amount = 0 \/ amount < 100
       THEN last' = Call("Sell", "400") /\ UNCHANGED backend
       ELSE IF ~verifyMBTTokenOwnership(tokenId, userId).valid
       THEN last' = Call("Sell", "400") /\ UNCHANGED backend
       ELSE LET transactionId == Cardinality(DOMAIN backend.transactions) + 1 IN
            /\ backend' = [transactions |-> Put(backend.transactions, transactionId,
                                                NewTransaction(userId, amount)),
                           handlers |-> Put(backend.handlers, transactionId,
                                            [at |-> "redeem",
                                             tokenId |-> tokenId,
                                             redemptionResult |-> [none |-> TRUE],
                                             payoutResult |-> [none |-> TRUE]])]
            /\ UNCHANGED last

\* the handler from the redemption to the payout: a failed redemption marks
\* the record FAILED and answers 500
SellRedeem(transactionId) ==
    /\ backend.handlers[transactionId].at = "redeem"
    /\ UNCHANGED <<now, calls, basketVars, rebalVars, version, pending, applied, exec>>
    /\ LET transaction == backend.transactions[transactionId]
           redemptionResult == redeemMBTTokens(backend.handlers[transactionId].tokenId,
                                               transaction.mbtAmount, transaction.userId)
       IN  IF redemptionResult.success
           THEN /\ backend' = [backend EXCEPT
                                 !.handlers[transactionId].at = "payout",
                                 !.handlers[transactionId].redemptionResult = redemptionResult]
                /\ UNCHANGED last
           ELSE /\ backend' = [backend EXCEPT
                                 !.handlers[transactionId].at = "done",
                                 !.handlers[transactionId].redemptionResult = redemptionResult,
                                 !.transactions[transactionId].status = "FAILED"]
                /\ last' = Call("Sell", "500")

\* the handler's call of processPayout, where Math.random() > 0.05 decides
\* between its two results
SellPayout(transactionId) ==
    /\ backend.handlers[transactionId].at = "payout"
    /\ UNCHANGED <<now, last, calls, basketVars, rebalVars, version, pending, applied, exec>>
    /\ \E payoutResult \in {[success |-> TRUE], [success |-> FALSE]} :
          backend' = [backend EXCEPT !.handlers[transactionId].at = "complete",
                                     !.handlers[transactionId].payoutResult = payoutResult]

\* the handler after processPayout: the record is saved as COMPLETED and the
\* request is answered with success
SellComplete(transactionId) ==
    /\ backend.handlers[transactionId].at = "complete"
    /\ UNCHANGED <<now, calls, basketVars, rebalVars, version, pending, applied, exec>>
    /\ backend' = [backend EXCEPT !.handlers[transactionId].at = "done",
                                  !.transactions[transactionId].status = "COMPLETED"]
    /\ last' = Call("Sell", "OK")

\* the amounts of the sell requests are 0 (no amount in the body), one below
\* the minimum of 100, the minimum and a larger one
NextSell ==
    \/ \E amount \in {0, 50, 100, 200}, userId \in Users : Sell(amount, 1, userId)
    \/ \E transactionId \in DOMAIN backend.handlers : SellRedeem(transactionId)
    \/ \E transactionId \in DOMAIN backend.handlers : SellPayout(transactionId)
    \/ \E transactionId \in DOMAIN backend.handlers : SellComplete(transactionId)

\* the sell requests of the backend
SpecSell == Init /\ [][NextSell]_vars

\* aggregate records given to the two rebalance checks: totals on, near and
\* off the target allocation (among them {0, 8000, 2000}, where gold and
\* silver are both 0.5 away from their targets, in float64 as well), last
\* rebalanced at the initial clock reading or with a lastRebalance that does
\* not parse.
\* No total is exactly 0.05 of the sum away from its target: there the float64
\* quotient is rounded to one side or the other of the threshold.
EvalHoldings ==
    {[totalMbtSupply |-> F(t[1] + t[2] + t[3]),
      totalBgtValue |-> F(t[1]), totalBstValue |-> F(t[2]), totalBptValue |-> F(t[3]),
      rebalanceNeeded |-> FALSE,
      lastRebalance |-> lastRebalance] :
        t \in ({4000, 4800, 5000, 5400, 6000} \X {2500, 3000, 3300} \X {1500, 2000, 2200})
                 \cup {<<0, 8000, 2000>>},
        lastRebalance \in {FormatRFC3339(0), Unparsable}}

InitEval ==
    /\ now = 0
    /\ tokens = << >>
    /\ holdings \in EvalHoldings
    /\ last = Call("Init", "OK")
    /\ calls = 0
    /\ premint = NoMint
    /\ policy = NoPolicy
    /\ requests = << >>
    /\ operations = << >>
    /\ rholdings = NoHoldings
    /\ version = NoVersions
    /\ pending = {}
    /\ applied = NothingApplied
    /\ exec = NotExecuting
    /\ backend = NoSells

\* the first step is the ledger's rebalance check applied to the aggregate
\* record (UpdateBasketHoldings: holdings.RebalanceNeeded =
\* CheckRebalanceNeeded(holdings))
NextEval ==
    \/ /\ calls < MaxCalls
       /\ calls' = calls + 1
       /\ holdings' = [holdings EXCEPT !.rebalanceNeeded = CheckRebalanceNeeded(holdings)]
       /\ last' = Call("CheckRebalanceNeeded", "OK")
       /\ UNCHANGED <<now, tokens, premint, rebalVars, txVars>>
    \/ PolicyInit
    \/ EvaluateRebalanceNeed
    \/ AdvanceInterval

\* the two rebalance checks applied to given aggregate records
SpecEval == InitEval /\ [][NextEval]_vars

-----------------------------------------------------------------------------
(* Properties of the basket ledger *)

\* the aggregate record as every reader sees it (all-zero while none is stored)
Agg == GetBasketHoldings

RECURSIVE SumTotalValue(_)
SumTotalValue(ids) ==
    IF ids = {} THEN F(0)
    ELSE LET id == CHOOSE x \in ids : TRUE
         IN  FAdd(tokens[id].totalValue, SumTotalValue(ids \ {id}))

\* the step is the invocation MintMBT(owner, totalAmount, owner)
MintStep(owner, totalAmount) ==
    /\ calls' = calls + 1
    /\ last'.op = "Mint"
    /\ MintMBT(owner, totalAmount, owner)

\* the step is the invocation RedeemMBT(tokenID, amount, userID)
RedeemStep(tokenID, amount, userID) ==
    /\ calls' = calls + 1
    /\ last'.op = "Redeem"
    /\ RedeemMBT(tokenID, amount, userID)

MintOK(owner, totalAmount) ==
    last'.err = "OK" /\ MintStep(owner, totalAmount)

RedeemOK(tokenID, amount, userID) ==
    last'.err = "OK" /\ RedeemStep(tokenID, amount, userID)

\* C1: in every reachable state totalSupply equals the sum of totalValue over
\* all token records in the store.
C1_SupplyIsSumOfTokens ==
    FEq(Agg.totalMbtSupply, SumTotalValue(DOMAIN tokens))

\* C2: in every reachable state no constituent total (gold, silver, platinum)
\* is negative.
C2_TotalsNonNegative ==
    /\ ~FLt(Agg.totalBgtValue, F(0))
    /\ ~FLt(Agg.totalBstValue, F(0))
    /\ ~FLt(Agg.totalBptValue, F(0))

C4_TokenAmountsSumToValue ==
    \A id \in DOMAIN tokens :
        FEq(FAdd(FAdd(tokens[id].bgtAmount, tokens[id].bstAmount), tokens[id].bptAmount),
            tokens[id].totalValue)

\* C4 witness: a token that a partial redemption has reduced is in the store.
C4_Witness ==
    /\ last = Call("Redeem", "OK")
    /\ \E id \in DOMAIN tokens :
          /\ tokens[id].totalValue = F(600)
          /\ tokens[id].bptAmount = F(120)

\* C5: a Mint with totalAmount <= 0 fails with InvalidAmount, creates no token
\* record and leaves the aggregate holdings unchanged.
C5_MintRejectsNonPositive ==
    [][\A owner \in Owners, totalAmount \in MintAmounts :
          (~FLt(F(0), totalAmount) /\ MintStep(owner, totalAmount))
          => (last'.err = "InvalidAmount" /\ tokens' = tokens /\ holdings' = holdings)]_vars

\* C6: every successful Mint(owner, amount) stores a token of that owner with
\* totalValue = amount, gold = amount/2, silver = 3*amount/10 and
\* platinum = amount/5, and adds amount to totalSupply and those three amounts
\* to the matching constituent totals.
C6_MintAllocates ==
    [][\A owner \in Owners, totalAmount \in MintAmounts :
          MintOK(owner, totalAmount)
          => LET t == tokens'[NewTokenID]
                 h == Agg
                 g == holdings'
             IN  /\ NewTokenID \in DOMAIN tokens'
                 /\ t.owner = owner
                 /\ FEq(t.totalValue, totalAmount)
                 /\ FEq(FMul(t.bgtAmount, F(2)), totalAmount)
                 /\ FEq(FMul(t.bstAmount, F(10)), FMul(totalAmount, F(3)))
                 /\ FEq(FMul(t.bptAmount, F(5)), totalAmount)
                 /\ FEq(FSub(g.totalMbtSupply, h.totalMbtSupply), totalAmount)
                 /\ FEq(FSub(g.totalBgtValue, h.totalBgtValue), t.bgtAmount)
                 /\ FEq(FSub(g.totalBstValue, h.totalBstValue), t.bstAmount)
                 /\ FEq(FSub(g.totalBptValue, h.totalBptValue), t.bptAmount)]_vars

\* C6 witness: Mint 1000 has stored a token {gold 500, silver 300,
\* platinum 200} on top of earlier holdings.
C6_Witness ==
    /\ last = Call("Mint", "OK")
    /\ \E id \in DOMAIN tokens :
          /\ id = UnixNano(now)
          /\ tokens[id].totalValue = F(1000)
          /\ tokens[id].bgtAmount = F(500)
          /\ tokens[id].bstAmount = F(300)
          /\ tokens[id].bptAmount = F(200)
    /\ holdings # NoHoldings
    /\ FLt(F(1000), holdings.totalMbtSupply)

\* C7: every successful Mint stores its token under an id that no token
\* already in the store has; a Mint never overwrites a token record.
C7_MintIdIsFresh ==
    [][(\E owner \in Owners, totalAmount \in MintAmounts : MintOK(owner, totalAmount))
          => /\ NewTokenID \notin DOMAIN tokens
             /\ \A id \in DOMAIN tokens : id \in DOMAIN tokens' /\ tokens'[id] = tokens[id]]_vars

\* C8: a Mint whose totalAmount exceeds the payer's balance fails with
\* InsufficientFunds; no token record is written and the aggregate holdings
\* are unchanged.
C8_MintInsufficientFunds ==
    [][\A owner \in Owners, totalAmount \in MintAmounts :
          (FLt(F(SimulatedBalance), totalAmount) /\ MintStep(owner, totalAmount))
          => (last'.err = "InsufficientFunds" /\ tokens' = tokens /\ holdings' = holdings)]_vars

\* C8 witness: a Mint has just been rejected for insufficient funds while the
\* ledger holds tokens.
C8_Witness ==
    /\ last = Call("Mint", "InsufficientFunds")
    /\ tokens # << >>
    /\ holdings # NoHoldings

\* C9: a Redeem of a missing token fails with NotFound; of a token the caller
\* does not own, with Unauthorized; by the owner for more than the token's
\* totalValue, with InsufficientBalance.  A rejected Redeem changes no token
\* record and not the aggregate holdings, and a Redeem that changes or removes
\* a token record was called by that token's owner.
C9_RedeemRejections ==
    [][(calls' = calls + 1 /\ last'.op = "Redeem")
          => /\ last'.err # "OK" => (tokens' = tokens /\ holdings' = holdings)
             /\ \A tokenID \in TokenIds, amount \in RedeemAmounts, userID \in Users :
                   /\ (tokenID \notin DOMAIN tokens /\ RedeemMBT(tokenID, amount, userID))
                         => last'.err = "NotFound"
                   /\ (tokenID \in DOMAIN tokens /\ tokens[tokenID].owner # userID
                         /\ RedeemMBT(tokenID, amount, userID))
                         => last'.err = "Unauthorized"
                   /\ (tokenID \in DOMAIN tokens /\ tokens[tokenID].owner = userID
                         /\ FLt(tokens[tokenID].totalValue, amount)
                         /\ RedeemMBT(tokenID, amount, userID))
                         => last'.err = "InsufficientBalance"
                   /\ (last'.err = "OK" /\ RedeemMBT(tokenID, amount, userID))
                         => /\ tokenID \in DOMAIN tokens
                            /\ tokens[tokenID].owner = userID
                            /\ \A id \in DOMAIN tokens \ {tokenID} :
                                  id \in DOMAIN tokens' /\ tokens'[id] = tokens[id]]_vars

\* C9 witness: a Redeem by a user who does not own the token has just been
\* rejected.
C9_Witness ==
    /\ last = Call("Redeem", "Unauthorized")
    /\ \E id \in DOMAIN tokens : FLt(F(0), tokens[id].totalValue)

\* C10: a successful Redeem of amount < totalValue leaves the token with
\* totalValue - amount and with each constituent amount scaled by
\* (totalValue - amount) / totalValue, and subtracts amount and the three
\* constituent reductions from the aggregate holdings; redeeming 400 from
\* {1000: 500, 300, 200} leaves {600: 300, 180, 120}.
C10_PartialRedeem ==
    [][\A tokenID \in DOMAIN tokens, amount \in RedeemAmounts, userID \in Users :
          (RedeemOK(tokenID, amount, userID) /\ FLt(amount, tokens[tokenID].totalValue))
          => LET t == tokens[tokenID]
                 u == tokens'[tokenID]
                 h == Agg
                 g == holdings'
                 rest == FSub(t.totalValue, amount)
             IN  /\ tokenID \in DOMAIN tokens'
                 /\ FEq(u.totalValue, rest)
                 /\ FEq(FMul(u.bgtAmount, t.totalValue), FMul(t.bgtAmount, rest))
                 /\ FEq(FMul(u.bstAmount, t.totalValue), FMul(t.bstAmount, rest))
                 /\ FEq(FMul(u.bptAmount, t.totalValue), FMul(t.bptAmount, rest))
                 /\ FEq(FSub(h.totalMbtSupply, g.totalMbtSupply), amount)
                 /\ FEq(FSub(h.totalBgtValue, g.totalBgtValue), FSub(t.bgtAmount, u.bgtAmount))
                 /\ FEq(FSub(h.totalBstValue, g.totalBstValue), FSub(t.bstAmount, u.bstAmount))
                 /\ FEq(FSub(h.totalBptValue, g.totalBptValue), FSub(t.bptAmount, u.bptAmount))
                 /\ (t.totalValue = F(1000) /\ t.bgtAmount = F(500) /\ t.bstAmount = F(300)
                       /\ t.bptAmount = F(200) /\ amount = F(400))
                    => (u.totalValue = F(600) /\ u.bgtAmount = F(300)
                          /\ u.bstAmount = F(180) /\ u.bptAmount = F(120))]_vars

\* C10 witness: Mint 1000 then Redeem 400 has left the token at
\* {600: 300, 180, 120} and the aggregate at the same values.
C10_Witness ==
    /\ last = Call("Redeem", "OK")
    /\ \E id \in DOMAIN tokens :
          /\ tokens[id].totalValue = F(600)
          /\ tokens[id].bgtAmount = F(300)
          /\ tokens[id].bstAmount = F(180)
          /\ tokens[id].bptAmount = F(120)
    /\ holdings # NoHoldings
    /\ holdings.totalMbtSupply = F(600)
    /\ holdings.totalBgtValue = F(300)

C12_GetHoldingsPersists ==
    last = Call("GetHoldings", "OK") => holdings # NoHoldings

-----------------------------------------------------------------------------
(* Properties of the rebalancing contract *)

\* the step is the invocation ApproveRebalanceRequest(requestID, approverID)
ApproveStep(requestID, approverID) ==
    /\ calls' = calls + 1
    /\ last'.op = "Approve"
    /\ ApproveRebalanceRequest(requestID, approverID)

\* the step is the invocation ExecuteRebalance(requestID)
ExecuteStep(requestID) ==
    /\ calls' = calls + 1
    /\ last'.op = "Execute"
    /\ ExecuteRebalance(requestID)

Terminal(request) == request.status \in {"EXECUTED", "FAILED"}

\* C13: after a successful Execute every constituent total of the aggregate
\* record equals the sum of the constituent totals times its target fraction
\* (50/30/20), rebalanceNeeded is false and lastRebalance is the execution
\* time, whatever deviations the request recorded.
C13_ExecuteReachesTarget ==
    [][\A requestID \in DOMAIN requests :
          (last'.err = "OK" /\ ExecuteStep(requestID))
          => /\ rholdings' # NoHoldings
             /\ FEq(rholdings'.totalBgtValue,
                    FMul(TotalMetalValue(rholdings'), GOLD_ALLOCATION))
             /\ FEq(rholdings'.totalBstValue,
                    FMul(TotalMetalValue(rholdings'), SILVER_ALLOCATION))
             /\ FEq(rholdings'.totalBptValue,
                    FMul(TotalMetalValue(rholdings'), PLATINUM_ALLOCATION))
             /\ ~rholdings'.rebalanceNeeded
             /\ rholdings'.lastRebalance = FormatRFC3339(now')]_vars

C15_ExecuteNeedsApproval ==
    [][/\ \A requestID \in DOMAIN requests :
             (/\ requests[requestID].status = "PENDING"
              /\ requests[requestID].approvalRequired
              /\ ExecuteStep(requestID))
             => /\ last'.err = "NotReady"
                /\ requests' = requests
                /\ rholdings' = rholdings
       /\ \A id \in (DOMAIN requests) \cap (DOMAIN requests') :
             (/\ requests'[id].status = "EXECUTED"
              /\ requests[id].status # "EXECUTED"
              /\ requests'[id].approvalRequired)
             => requests[id].status = "APPROVED"]_vars

\* C15 witness: an Execute of a PENDING request that requires approval has
\* just been rejected.
C15_Witness ==
    /\ last = Call("Execute", "NotReady")
    /\ \E id \in DOMAIN requests :
          requests[id].status = "PENDING" /\ requests[id].approvalRequired

\* C16: Approve succeeds exactly for a stored request that is PENDING with
\* approvalRequired = true, and then sets its status to APPROVED and changes
\* no other request; in every other case (no such request, another status,
\* approvalRequired = false) it fails and changes no request.
C16_ApproveOnlyPending ==
    [][\A requestID \in RequestIds, approverID \in Users :
          ApproveStep(requestID, approverID)
          => IF /\ requestID \in DOMAIN requests
                /\ requests[requestID].status = "PENDING"
                /\ requests[requestID].approvalRequired
             THEN /\ last'.err = "OK"
                  /\ DOMAIN requests' = DOMAIN requests
                  /\ requests'[requestID].status = "APPROVED"
                  /\ \A id \in DOMAIN requests \ {requestID} : requests'[id] = requests[id]
             ELSE /\ last'.err \in {"NotFound", "InvalidState"}
                  /\ requests' = requests]_vars

\* C16 witness: a request that requires approval has just been approved.
C16_Witness ==
    /\ last = Call("Approve", "OK")
    /\ \E id \in DOMAIN requests :
          requests[id].status = "APPROVED" /\ requests[id].approvalRequired

\* C18: for any interleaving of Approve and Execute transactions on a request,
\* at most one committed transaction executes the request and applies its
\* holdings update, and a transaction is committed only onto the status it was
\* simulated against: an Execute onto APPROVED (or PENDING without approval
\* required), an Approve onto PENDING with approval required.
C18_ExecuteAppliedOnce ==
    [][/\ \A id \in DOMAIN applied'.executions : applied'.executions[id] <= 1
       /\ \A t \in pending :
             (pending' = pending \ {t} /\ last' = Call(t.op, "OK"))
             => /\ t.w.requestID \in DOMAIN requests
                /\ t.op = "Execute" => ReadyForExecution(requests[t.w.requestID])
                /\ t.op = "Approve" => /\ requests[t.w.requestID].status = "PENDING"
                                        /\ requests[t.w.requestID].approvalRequired
                /\ rholdings' # rholdings => t.op = "Execute"]_vars

\* C18 witness: two Execute transactions of one request were simulated
\* concurrently; one was committed, the other was then dropped, and the
\* request is EXECUTED with its update applied once.
C18_Witness ==
    /\ last = Call("Execute", "MVCC_READ_CONFLICT")
    /\ pending = {}
    /\ \E id \in DOMAIN requests :
          /\ requests[id].status = "EXECUTED"
          /\ applied.executions[id] = 1
    /\ rholdings # NoHoldings

\* C19: for any interleaving of concurrent Mint and Redeem calls, the totals
\* of the aggregate record equal the initial (zero) totals plus the deltas of
\* every committed Mint minus those of every committed Redeem: no update of
\* the aggregate is lost.
C19_NoLostUpdate ==
    Totals(Agg) = applied.totals

\* C19 witness: a Mint and a Redeem were simulated against the same aggregate
\* record; the Mint was committed and the Redeem was then dropped, with two
\* tokens of 1000 stored.
C19_Witness ==
    /\ last = Call("Redeem", "MVCC_READ_CONFLICT")
    /\ holdings # NoHoldings
    /\ holdings.totalMbtSupply = F(2000)
    /\ Cardinality(DOMAIN tokens) = 2
    /\ pending = {}

\* the largest absolute deviation of an aggregate record from the targets
MaxAbsDeviation(h) ==
    MaxDeviation(Deviations(CurrentAlloc(h), TargetAlloc(DefaultPolicy)))

EvaluateStep ==
    /\ calls' = calls + 1
    /\ last'.op = "Evaluate"

\* the largest absolute deviation EvaluateRebalanceNeed computes
EvaluatedMaxDeviation ==
    MaxDeviation(Deviations(CurrentAlloc(RebalancingGetBasketHoldings), TargetAlloc(policy)))

C22_TimeTriggerCreatesRequest ==
    [][(/\ EvaluateStep
        /\ policy # NoPolicy
        /\ Overdue(RebalancingGetBasketHoldings, policy)
        /\ ~FEq(RebalancingGetBasketHoldings.totalMbtSupply, F(0))
        /\ ~FEq(TotalMetalValue(RebalancingGetBasketHoldings), F(0)))
          => \E id \in DOMAIN requests' :
                id \notin DOMAIN requests \/ requests'[id] # requests[id]]_vars

\* an aggregate record with nothing to rebalance
NothingToRebalance(h) ==
    \/ FEq(h.totalMbtSupply, F(0))
    \/ FEq(TotalMetalValue(h), F(0))

\* C23: when the total supply or the sum of the constituent totals of the
\* ledger's aggregate record is 0, the ledger's check leaves rebalanceNeeded
\* false and Evaluate returns without error and creates no request, whatever
\* the time since the last rebalance and whether or not a policy is stored.
C23_NothingToRebalance ==
    [][/\ (holdings' # NoHoldings /\ holdings' # holdings /\ NothingToRebalance(holdings'))
             => ~holdings'.rebalanceNeeded
       /\ (EvaluateStep /\ NothingToRebalance(Agg))
             => /\ last'.err = "OK"
                /\ requests' = requests
                /\ operations' = operations]_vars

CreateStep ==
    /\ calls' = calls + 1
    /\ last' = Call("Create", "OK")

\* the operations the step stored
StoredOperations ==
    {id \in DOMAIN operations' :
        id \notin DOMAIN operations \/ operations'[id] # operations[id]}

\* the metal of a token type
MetalOf(metalType) == CHOOSE metal \in Metals : metalMapping[metal] = metalType

\* the deviation an operation was generated for
DeviationOf(operation, request) == request.deviations[MetalOf(operation.metalType)]

\* the sum of the constituent totals the rebalancing contract reads
SumOfTotals == TotalMetalValue(RebalancingGetBasketHoldings)

\* C25: every operation stored for a constituent is a SELL when the
\* constituent's deviation (current - target) is > 0 and a BUY when it is < 0,
\* and its amount is |deviation| * the sum of the constituent totals.
C25_OperationDirection ==
    [][CreateStep
          => \A id \in StoredOperations :
                LET operation == operations'[id]
                    deviation == DeviationOf(operation, requests'[operation.requestId])
                IN  /\ FLt(F(0), deviation) => operation.operationType = "SELL"
                    /\ FLt(deviation, F(0)) => operation.operationType = "BUY"
                    /\ FEq(operation.amount, FMul(abs(deviation), SumOfTotals))]_vars

\* C26: no operation is stored whose amount is below policy.minTradeAmount or
\* whose constituent's |deviation| is below 0.001, also when the request is
\* stored; a request may be stored with no operation.
C26_NoSmallOperation ==
    [][CreateStep
          => /\ UnixNano(now) \in DOMAIN requests'
             /\ \A id \in StoredOperations :
                   LET operation == operations'[id]
                       deviation == DeviationOf(operation, requests'[operation.requestId])
                   IN  /\ ~FLt(operation.amount, policy.minTradeAmount)
                       /\ ~FLt(abs(deviation), Norm(1, 1000))
                       /\ ~FLt(FMul(abs(deviation), SumOfTotals), policy.minTradeAmount)]_vars

\* C26 witness: a request was just stored with a gold deviation of 0.10 and
\* silver and platinum deviations of -0.05 (trades of 1000, 500 and 500): only
\* the gold operation is stored for it.
C26_Witness ==
    /\ last = Call("Create", "OK")
    /\ \E id \in DOMAIN requests :
          /\ requests[id].deviations["silver"] = Norm(-1, 20)
          /\ OperationsOf(id) # {}
          /\ \A o \in OperationsOf(id) : operations[o].metalType = "BGT"

EmittedMetals(request) ==
    {metal \in Metals : ~SkipsOperation(request.deviations[metal], SumOfTotals, policy)}

\* C28: a request and its operations are stored as one unit: every stored
\* PENDING request has an operation for each constituent that operation
\* generation emitted one for (also when two of them were generated at the
\* same clock reading), and every stored operation belongs to a stored
\* request.
C28_RequestWithOperations ==
    /\ \A id \in DOMAIN requests :
          requests[id].status = "PENDING"
          => \A metal \in EmittedMetals(requests[id]) :
                \E o \in OperationsOf(id) : operations[o].metalType = metalMapping[metal]
    /\ \A o \in DOMAIN operations : operations[o].requestId \in DOMAIN requests

-----------------------------------------------------------------------------
(* Properties of the net asset value *)

\* the constituent totals of the aggregate record times their prices, summed
PricedTotals ==
    FAdd(FAdd(FMul(Agg.totalBgtValue, F(5800)), FMul(Agg.totalBstValue, F(75))),
         FMul(Agg.totalBptValue, F(3200)))

\* C29: CalculateMBTNAV returns the sum over the constituents of total * price
\* divided by the total supply when the supply is not 0, and 0 without an
\* error when the supply is 0; it changes neither the aggregate record nor
\* any token.
C29_NAV ==
    [][(calls' = calls + 1 /\ last'.op = "CalculateMBTNAV")
          => /\ last'.err = "OK"
             /\ IF FEq(Agg.totalMbtSupply, F(0))
                THEN last'.value = F(0)
                ELSE /\ IsFinite(last'.value)
                     /\ FEq(FMul(last'.value, Agg.totalMbtSupply), PricedTotals)
             /\ holdings' = holdings
             /\ tokens' = tokens]_vars

\* C29 witness: with a supply of 1000 held as 500, 300 and 200 the value
\* returned is 3562.5 (500 * 5800 + 300 * 75 + 200 * 3200, over 1000).
C29_Witness ==
    /\ last = Returned("CalculateMBTNAV", Norm(7125, 2))
    /\ holdings # NoHoldings
    /\ holdings.totalMbtSupply = F(1000)

-----------------------------------------------------------------------------
(* Properties of the two contracts together *)

\* C30: RebalanceBasket and the rebalancing contract's Evaluate, operation
\* generation, Approve and Execute leave every token record and the total
\* supply unchanged (the aggregate record Execute writes carries the supply
\* it read); token records change only in Mint and Redeem.
C30_RebalancingIsAggregateOnly ==
    [][/\ (/\ calls' = calls + 1
           /\ last'.op \in {"RebalanceBasket", "Evaluate", "Create", "Approve", "Execute"})
             => /\ tokens' = tokens
                /\ Agg'.totalMbtSupply = Agg.totalMbtSupply
                /\ rholdings' # rholdings
                      => rholdings'.totalMbtSupply
                            = RebalancingGetBasketHoldings.totalMbtSupply
       /\ tokens' # tokens => last'.op \in {"Mint", "Redeem"}]_vars

\* C30 witness: a request was just executed while a token of 1000 is stored.
C30_Witness ==
    /\ last = Call("Execute", "OK")
    /\ rholdings # NoHoldings
    /\ holdings # NoHoldings
    /\ holdings.totalMbtSupply = F(1000)
    /\ \E id \in DOMAIN tokens : tokens[id].totalValue = F(1000)

\* C31: the holdings Evaluate reads are the aggregate record as last written:
\* by the basket ledger's Mint and Redeem, or by Execute once it has written
\* the record; never a fixed stand-in.
C31_EvaluateReadsLedger ==
    [][EvaluateStep
          => \/ Totals(RebalancingGetBasketHoldings) = Totals(Agg)
             \/ /\ rholdings # NoHoldings
                /\ Totals(RebalancingGetBasketHoldings) = Totals(rholdings)]_vars

\* C32: while no policy is stored, Evaluate and CreateRebalanceRequest fail
\* with PolicyNotInitialized and store no request and no operation; once a
\* policy is stored, InitializePolicy leaves its values unchanged.
C32_PolicyNotInitialized ==
    [][/\ (/\ calls' = calls + 1
           /\ last'.op \in {"Evaluate", "Create"}
           /\ policy = NoPolicy)
             => /\ last'.err = "PolicyNotInitialized"
                /\ requests' = requests
                /\ operations' = operations
                /\ policy' = NoPolicy
       /\ (/\ calls' = calls + 1
           /\ last'.op = "InitializePolicy"
           /\ policy # NoPolicy)
             => policy' = policy]_vars

\* C32 witness: Evaluate has just failed because no policy is stored.
C32_Witness ==
    /\ last = Call("Evaluate", "PolicyNotInitialized")
    /\ policy = NoPolicy
    /\ requests = << >>
    /\ operations = << >>

\* C33: in every reachable state the stored rebalanceNeeded flag equals the
\* rebalance check evaluated on the stored holdings at the current time, also
\* after time has advanced with no Mint or Redeem.
C33_FlagIsFaithful ==
    holdings # NoHoldings => holdings.rebalanceNeeded = CheckRebalanceNeeded(holdings)

Open(request) == request.status \in {"PENDING", "APPROVED"}

\* C35: a PENDING or APPROVED request is never expired, cancelled or changed
\* by anything other than Approve or Execute: a step that is not a call of
\* Approve or Execute (a Mint, a Redeem, an Evaluate, a Create, the clock)
\* leaves every open request stored with its status and fields unchanged.
C35_OpenRequestUnchanged ==
    [][~(calls' = calls + 1 /\ last'.op \in {"Approve", "Execute"})
          => \A requestID \in DOMAIN requests :
                Open(requests[requestID])
                => /\ requestID \in DOMAIN requests'
                   /\ requests'[requestID] = requests[requestID]]_vars

\* C36: from an empty ledger, after any sequence of successful Mint, Redeem
\* and RebalanceBasket calls the aggregate is exactly on target (each
\* constituent total is the supply times its share), no constituent deviates
\* beyond the threshold, and rebalanceNeeded is set only when the rebalance
\* interval has elapsed.
C36_AggregateOnTarget ==
    /\ FEq(Agg.totalBgtValue, FMul(Agg.totalMbtSupply, GOLD_ALLOCATION))
    /\ FEq(Agg.totalBstValue, FMul(Agg.totalMbtSupply, SILVER_ALLOCATION))
    /\ FEq(Agg.totalBptValue, FMul(Agg.totalMbtSupply, PLATINUM_ALLOCATION))
    /\ ~NothingToRebalance(Agg) => ~DeviationExceeded(Agg)
    /\ Agg.rebalanceNeeded => (~NothingToRebalance(Agg) /\ IntervalElapsed(Agg))

\* C36 witness: a mint, a partial redemption one interval later (which sets
\* rebalanceNeeded by the time trigger) and the RebalanceBasket that followed.
C36_Witness ==
    /\ last = Call("RebalanceBasket", "OK")
    /\ holdings # NoHoldings
    /\ Agg.totalMbtSupply = F(600)
    /\ Agg.lastRebalance = FormatRFC3339(IntervalTicks)
    /\ ~Agg.rebalanceNeeded

\* C37: no successful Redeem, whatever the amount (zero and negative
\* included), increases the token's totalValue, any of its constituent
\* amounts, the total supply or any constituent total.
C37_RedeemNeverIncreases ==
    [][\A tokenID \in DOMAIN tokens, amount \in RedeemAmounts, userID \in Users :
          RedeemOK(tokenID, amount, userID)
          => /\ ~FLt(Agg.totalMbtSupply, Agg'.totalMbtSupply)
             /\ ~FLt(Agg.totalBgtValue, Agg'.totalBgtValue)
             /\ ~FLt(Agg.totalBstValue, Agg'.totalBstValue)
             /\ ~FLt(Agg.totalBptValue, Agg'.totalBptValue)
             /\ tokenID \in DOMAIN tokens'
                   => /\ ~FLt(tokens[tokenID].totalValue, tokens'[tokenID].totalValue)
                      /\ ~FLt(tokens[tokenID].bgtAmount, tokens'[tokenID].bgtAmount)
                      /\ ~FLt(tokens[tokenID].bstAmount, tokens'[tokenID].bstAmount)
                      /\ ~FLt(tokens[tokenID].bptAmount, tokens'[tokenID].bptAmount)]_vars

\* C38: at most one PENDING or APPROVED request is stored at any time.
C38_AtMostOneOpenRequest ==
    Cardinality({requestID \in DOMAIN requests : Open(requests[requestID])}) <= 1

C40_CompletedOnlyAfterPayout ==
    \A transactionId \in DOMAIN backend.transactions :
        backend.transactions[transactionId].status = "COMPLETED"
        => /\ backend.handlers[transactionId].redemptionResult.success
           /\ backend.handlers[transactionId].payoutResult.success

====
